---- MODULE Spec2Model ----
(***************************************************************************)
(* Model of the import-map integrity verifiers of sri-import-map.          *)
(*                                                                         *)
(* An import map is a record [imports, scopes, integrity].  A digest       *)
(* string "<tag>-<base64 of hash_alg(content)>" is the record              *)
(* [tag, alg, of]: two digest strings are equal as strings exactly when    *)
(* the three fields are equal (the hash functions and base64 are taken to  *)
(* be injective and the hash functions to have disjoint ranges).           *)
(***************************************************************************)
EXTENDS Integers, Sequences, FiniteSets, TLC

VARIABLES
    client,       \* which implementation of importWithIntegrity runs
    lenient,      \* does the platform digest accept a hyphen-less name
    importMap,    \* the import map handed to / read by the verifier
    specifier,    \* argument of the current importWithIntegrity call
    url,          \* the resolved URL of the current call
    pc,           \* position of the current call in the verification
    expected,     \* the digest string the fetched bytes are compared to
    response,     \* what the verification fetch returned
    fetches,      \* number of verification fetches of the current call
    loaderCalls,  \* URLs handed to import() by the current call
    path,         \* the positions the current call went through
    disk,         \* build output: content of each file, 0 when it is missing
    todo,         \* integrity entries the validator has not processed yet
    results,      \* the validator's counters and failure records
    referrer,     \* URL of the module the import is made from (path segments)
    modules,      \* the generator's input: (path, content) in insertion order
    baseUrl,      \* the generator's base URL (config.modulePrefix)
    cursor,       \* number of input entries the generator has processed
    firstModules, \* the input of the first generator run
    firstMap,     \* the map the first generator run returned
    adds,         \* the addModule calls of the loader, by call
    document,     \* the import map scripts appended to the document
    map0,         \* the loader's map when it was constructed
    calls,        \* the importWithIntegrity calls running side by side
    served,       \* what a fetch of each URL returns
    chunks,       \* the modules of the chunks of a webpack compilation
    fault,        \* what goes wrong in the build hook of that compilation
    written,      \* the import map file the build hook has written
    component,    \* the component that uses useModuleWithIntegrity
    hook,         \* the state of useModuleWithIntegrity
    effects,      \* the effects the hook has run, each with its mounted flag
    swMaps,       \* the served and the trusted map of the service worker
    verdict       \* what the service worker made of the served map

vars == <<client, lenient, importMap, specifier, url, pc, expected, response,
          fetches, loaderCalls, path, disk, todo, results, referrer,
          modules, baseUrl, cursor, firstModules, firstMap,
          adds, document, map0, calls, served, chunks, fault, written,
          component, hook, effects, swMaps, verdict>>

\* the state of a generator run, untouched by verifiers and validators
genVars == <<modules, baseUrl, cursor, firstModules, firstMap>>

\* the state of an IntegrityModuleLoader, untouched by the build tools
loaderVars == <<adds, document, map0>>

\* the state that only the later parts of the model use
hookVars == <<component, hook, effects>>
workerVars == <<swMaps, verdict>>
extraVars == <<calls, served, chunks, fault, written, hookVars, workerVars>>

\* the state of a build validation, untouched by the runtime verifiers
buildVars == <<disk, todo, results>>

\* the state of an importWithIntegrity call, untouched by the validators
callVars == <<specifier, url, expected, response, fetches, loaderCalls, path,
              referrer>>

----------------------------------------------------------------------------
(* Bounds and universes *)

\* number of distinct module contents a server may return
MaxContent == 2

\* specifiers and URLs (keys of imports and of integrity), after the
\* fixture of the test suite: G -> F, bare2 -> F, integrity[bare2]
Keys == {"G", "F", "bare2"}

Contents == 1..MaxContent

Algs == {"sha384", "sha256"}

NoKey == ""
NoDigest == [tag |-> "", alg |-> "", of |-> 0]
NoResponse == [kind |-> "none", body |-> 0]

\* the digest strings a map declares: "<a>-<base64(hash_a(content 1))>"
DeclaredDigests == {[tag |-> a, alg |-> a, of |-> 1] : a \in Algs}

PartialFns(D, R) == UNION {[S -> R] : S \in SUBSET D}

\* fetch() either throws (network error) or returns a response that is ok
\* or not ok (404, 500); both kinds of response carry a body
Responses ==
    {[kind |-> "throw", body |-> 0]}
    \cup {[kind |-> k, body |-> c] : k \in {"ok", "notok"}, c \in Contents}

Has(f, k) == k \in DOMAIN f

\* { imports: {}, integrity: {} }
NoMap == [imports |-> <<>>, scopes |-> <<>>, integrity |-> <<>>]

----------------------------------------------------------------------------
(* src/src/import-map.ts: the core verifier *)

calculateIntegrity(content) ==
    [tag |-> "sha384", alg |-> "sha384", of |-> content]

resolveModuleSpecifier(s, m) ==
    IF Has(m.imports, s) THEN m.imports[s] ELSE s

hasIntegrityCheck(u, m) == Has(m.integrity, u)

getIntegrityHash(u, m) ==
    IF Has(m.integrity, u) THEN m.integrity[u] ELSE NoDigest

\* mutant: the comparison of verifyIntegrity inverted
verifyIntegrity_Inverted(r, expectedHash) ==
    IF r.kind = "throw" THEN FALSE
    ELSE [tag |-> "sha384", alg |-> "sha384", of |-> r.body] # expectedHash

\* verifyIntegrity: the result for a fetch outcome r; a throw of fetch() or
\* of response.text() is caught and gives false, response.ok is not read
verifyIntegrity(r, expectedHash) ==
    IF r.kind = "throw" THEN FALSE
    ELSE calculateIntegrity(r.body) = expectedHash

\* the alias loop of importWithIntegrity: some (bare, target) of imports
\* has target = u and an integrity entry under bare
AliasHits(u, m) ==
    {s \in DOMAIN m.imports : m.imports[s] = u /\ hasIntegrityCheck(s, m)}

\* what importWithIntegrity decides once the URL is resolved (lines 110-126):
\* the position it moves to and the digest it will compare against
Outcome(p, e) == [pc |-> p, expected |-> e]

\* mutant: importWithIntegrity without its alias loop
LocateCore_NoAliasLoop(u, m) ==
    IF Has(m.integrity, u) THEN {Outcome("DIRECT_CHECK", m.integrity[u])}
    ELSE {Outcome("UNCONSTRAINED", NoDigest)}

\* mutant: the alias loop throws for any alias, with or without a digest
LocateCore_AnyAlias(u, m) ==
    IF Has(m.integrity, u) THEN {Outcome("DIRECT_CHECK", m.integrity[u])}
    ELSE IF \E s \in DOMAIN m.imports : m.imports[s] = u
         THEN {Outcome("TRANSITIVE_HIT", NoDigest)}
         ELSE {Outcome("UNCONSTRAINED", NoDigest)}

LocateCore(u, m) ==
    LET integrity == getIntegrityHash(u, m) IN
    IF integrity # NoDigest THEN {Outcome("DIRECT_CHECK", integrity)}
    ELSE IF AliasHits(u, m) # {} THEN {Outcome("TRANSITIVE_HIT", NoDigest)}
    ELSE {Outcome("UNCONSTRAINED", NoDigest)}

----------------------------------------------------------------------------
(* src/unnamed/part_004: the React/TypeScript client (SHA-384 only).  The   *)
(* map is the one read from the document by getImportMap.                   *)

resolveSpecifier(s, m) ==
    IF Has(m.imports, s) THEN m.imports[s] ELSE s

getIntegrityForUrl(u, m) ==
    IF Has(m.integrity, u) THEN m.integrity[u] ELSE NoDigest

hasIntegrityConstraint(u, m) ==
    \/ Has(m.integrity, u)
    \/ \E s \in DOMAIN m.imports : m.imports[s] = u /\ Has(m.integrity, s)

\* fetchAndCalculateIntegrity does not read response.ok; a throw is caught
validateModuleIntegrity(r, expectedIntegrity) ==
    IF expectedIntegrity.tag # "sha384" THEN FALSE
    ELSE IF r.kind = "throw" THEN FALSE
    ELSE calculateIntegrity(r.body) = expectedIntegrity

\* mutant: validateModuleIntegrity fetches before it looks at the tag
LocateTs_NoTagCheck(u, m) ==
    IF ~hasIntegrityConstraint(u, m) THEN {Outcome("UNCONSTRAINED", NoDigest)}
    ELSE IF ~Has(m.integrity, u) THEN {Outcome("TRANSITIVE_HIT", NoDigest)}
    ELSE {Outcome("DIRECT_CHECK", m.integrity[u])}

\* importWithIntegrity, lines 239-253: validateModuleIntegrity is called
\* only when getIntegrityForUrl gives a digest; with a constraint that is
\* held by an alias alone the function falls through to import(url)
LocateTs(u, m) ==
    IF ~hasIntegrityConstraint(u, m) THEN {Outcome("UNCONSTRAINED", NoDigest)}
    ELSE LET integrityHash == getIntegrityForUrl(u, m) IN
         IF integrityHash = NoDigest THEN {Outcome("TRANSITIVE_HIT", NoDigest)}
         ELSE IF integrityHash.tag # "sha384"
              THEN {Outcome("ALGO_UNSUPPORTED", integrityHash)}
              ELSE {Outcome("DIRECT_CHECK", integrityHash)}

----------------------------------------------------------------------------
(* src/unnamed/part_006: the JS client (SHA-384 only) *)

\* the digest verifyIntegrity settles on (lines 160-174): the direct one,
\* else that of the first alias of u that has one; Object.entries gives the
\* aliases in the order of the map's text, so any of them may be the first
LocatedDigests(u, m) ==
    IF Has(m.integrity, u) THEN {Outcome("DIRECT_CHECK", m.integrity[u])}
    ELSE {Outcome("ALIAS_CHECK", m.integrity[s]) :
            s \in {k \in DOMAIN m.imports : m.imports[k] = u /\ Has(m.integrity, k)}}

\* importWithIntegrity (211-226) with verifyIntegrity up to its fetch
LocateJs(u, m) ==
    IF ~hasIntegrityConstraint(u, m) THEN {Outcome("UNCONSTRAINED", NoDigest)}
    ELSE {IF o.expected.tag # "sha384"
          THEN Outcome("ALGO_UNSUPPORTED", o.expected) ELSE o :
            o \in LocatedDigests(u, m)}

\* verifyIntegrity, lines 187-203, for a fetch outcome r
verifyIntegrityJs(r, integrity) ==
    IF r.kind # "ok" THEN FALSE
    ELSE calculateIntegrity(r.body) = integrity

----------------------------------------------------------------------------
(* src/unnamed/part_007: the legacy client, and the helper emitted by       *)
(* src/vite-module-integrity.ts; both hash with the algorithm of the tag    *)

\* crypto.subtle.digest(algorithm.toUpperCase(), data): the name handed over
\* is "SHA384" or "SHA256", without the hyphen of the registered names.  A
\* platform that matches names strictly rejects it, a lenient one (the mock
\* digest of the test suite) hashes; both are outcomes of the build
calculateIntegrityTagged(content, algorithm, accepts) ==
    IF accepts THEN [tag |-> algorithm, alg |-> algorithm, of |-> content]
    ELSE NoDigest

\* importWithIntegrity (195-210) with verifyIntegrity (150-168)
LocateLegacy(u, m) ==
    IF ~hasIntegrityConstraint(u, m) THEN {Outcome("UNCONSTRAINED", NoDigest)}
    ELSE LocatedDigests(u, m)

\* verifyIntegrity, lines 170-187: position reached after the comparison
CompareTagged(r, integrity, accepts) ==
    LET actualIntegrity == calculateIntegrityTagged(r.body, integrity.tag, accepts) IN
    IF actualIntegrity = NoDigest THEN "DIGEST_FAILED"
    ELSE IF actualIntegrity = integrity THEN "MATCH" ELSE "MISMATCH"

\* the emitted importWithIntegrity, lines 181-198 of the plugin source
LocateVite(u, m) ==
    LET integrity == IF Has(m.integrity, u) THEN m.integrity[u] ELSE NoDigest IN
    IF integrity # NoDigest THEN {Outcome("DIRECT_CHECK", integrity)}
    ELSE IF \E bare \in DOMAIN m.imports :
                m.imports[bare] = u /\ Has(m.integrity, bare)
         THEN {Outcome("TRANSITIVE_HIT", NoDigest)}
         ELSE {Outcome("UNCONSTRAINED", NoDigest)}

----------------------------------------------------------------------------
(* Dispatch on the implementation that runs *)

Clients == {"core", "ts", "js", "legacy", "vite"}

ResolveOf(c, s, m) ==
    IF c = "core" THEN resolveModuleSpecifier(s, m) ELSE resolveSpecifier(s, m)

LocateOf(c, u, m) ==
    CASE c = "core" -> LocateCore(u, m)
      [] c = "ts" -> LocateTs(u, m)
      [] c = "js" -> LocateJs(u, m)
      [] c = "legacy" -> LocateLegacy(u, m)
      [] OTHER -> LocateVite(u, m)

\* does the verification fetch count as failed for this response: the core
\* and the TypeScript client only see a throw, the others read response.ok
FetchFailsOf(c, r) ==
    IF c \in {"core", "ts"} THEN r.kind = "throw" ELSE r.kind # "ok"

\* the position reached by the comparison once a body was obtained
CompareOf(c, r, e, accepts) ==
    CASE c = "core" -> IF verifyIntegrity(r, e) THEN "MATCH" ELSE "MISMATCH"
      [] c = "ts" -> IF validateModuleIntegrity(r, e) THEN "MATCH" ELSE "MISMATCH"
      [] c = "js" -> IF verifyIntegrityJs(r, e) THEN "MATCH" ELSE "MISMATCH"
      [] OTHER -> CompareTagged(r, e, accepts)

\* mutant: a failed comparison does not throw
ProceedsOf_NoThrow(c, p) ==
    \/ p \in {"UNCONSTRAINED", "MATCH", "MISMATCH"}
    \/ c = "ts" /\ p = "TRANSITIVE_HIT"

\* the positions from which the implementation goes on to import(url)
ProceedsOf(c, p) ==
    \/ p \in {"UNCONSTRAINED", "MATCH"}
    \/ c = "ts" /\ p = "TRANSITIVE_HIT"

\* the positions in which the check has failed
RejectStates ==
    {"MISMATCH", "TRANSITIVE_HIT", "ALGO_UNSUPPORTED", "FETCH_FAILED",
     "DIGEST_FAILED"}

Terminal == {"IMPORT", "REJECT"}

----------------------------------------------------------------------------
(* The verification state machine of one importWithIntegrity call *)

Maps ==
    {[imports |-> i, scopes |-> <<>>, integrity |-> g] :
        i \in PartialFns(Keys, Keys), g \in PartialFns(Keys, DeclaredDigests)}

InitCall ==
    /\ specifier = NoKey
    /\ url = NoKey
    /\ pc = "IDLE"
    /\ expected = NoDigest
    /\ response = NoResponse
    /\ fetches = 0
    /\ loaderCalls = {}
    /\ path = <<>>
    /\ referrer = <<>>

\* the state before any call
NoResults == [total |-> 0, passed |-> 0, failed |-> 0, missing |-> 0,
              failures |-> <<>>]

\* no generator has run
InitGen ==
    /\ modules = <<>>
    /\ baseUrl = "/"
    /\ cursor = 0
    /\ firstModules = <<>>
    /\ firstMap = NoMap

\* no component uses the hook
InitHookVars ==
    /\ component = [specifier |-> NoKey, alive |-> FALSE]
    /\ hook = [module |-> NoKey, loading |-> TRUE, error |-> NoKey]
    /\ effects = <<>>

\* no service worker is installed
InitWorkerVars ==
    /\ swMaps = <<>>
    /\ verdict = <<>>

\* nothing of the later parts of the model has started
InitExtra ==
    /\ calls = <<>>
    /\ served = <<>>
    /\ chunks = <<>>
    /\ fault = "none"
    /\ written = NoMap
    /\ InitHookVars
    /\ InitWorkerVars

\* no loader has been constructed
InitLoader ==
    /\ adds = <<>>
    /\ document = <<>>
    /\ map0 = NoMap

InitBuild ==
    /\ disk = <<>>
    /\ todo = {}
    /\ results = NoResults
    /\ InitGen
    /\ InitLoader
    /\ InitExtra

Init ==
    /\ client \in Clients
    /\ lenient \in (IF client \in {"legacy", "vite"} THEN BOOLEAN ELSE {FALSE})
    /\ importMap \in Maps
    /\ InitCall
    /\ InitBuild

\* a caller invokes importWithIntegrity(s, importMap); a call that ended may
\* be followed by another one, which starts from scratch
Call ==
    /\ pc \in {"IDLE"} \cup Terminal
    /\ \E s \in Keys : specifier' = s
    /\ url' = NoKey
    /\ pc' = "START"
    /\ expected' = NoDigest
    /\ response' = NoResponse
    /\ fetches' = 0
    /\ loaderCalls' = {}
    /\ path' = <<"START">>
    /\ UNCHANGED <<extraVars, genVars, loaderVars, client, lenient, importMap, buildVars, referrer>>

Resolve ==
    /\ pc = "START"
    /\ url' = ResolveOf(client, specifier, importMap)
    /\ pc' = "RESOLVED"
    /\ path' = Append(path, "RESOLVED")
    /\ UNCHANGED <<extraVars, genVars, loaderVars, buildVars, referrer, client, lenient, importMap, specifier, expected, response,
                   fetches, loaderCalls>>

Locate ==
    /\ pc = "RESOLVED"
    /\ \E o \in LocateOf(client, url, importMap) :
          /\ pc' = o.pc
          /\ expected' = o.expected
          /\ path' = Append(path, o.pc)
    /\ UNCHANGED <<extraVars, genVars, loaderVars, buildVars, referrer, client, lenient, importMap, specifier, url, response,
                   fetches, loaderCalls>>

\* the fetch made to obtain the bytes for the comparison
Fetch ==
    /\ pc \in {"DIRECT_CHECK", "ALIAS_CHECK"}
    /\ \E r \in Responses :
          /\ response' = r
          /\ pc' = IF FetchFailsOf(client, r) THEN "FETCH_FAILED" ELSE "FETCHED"
          /\ path' = Append(path, pc')
    /\ fetches' = fetches + 1
    /\ UNCHANGED <<extraVars, genVars, loaderVars, buildVars, referrer, client, lenient, importMap, specifier, url, expected,
                   loaderCalls>>

Compare ==
    /\ pc = "FETCHED"
    /\ pc' = CompareOf(client, response, expected, lenient)
    /\ path' = Append(path, pc')
    /\ UNCHANGED <<extraVars, genVars, loaderVars, buildVars, referrer, client, lenient, importMap, specifier, url, expected,
                   response, fetches, loaderCalls>>

\* throw new Error("Integrity check failed ...")
Reject ==
    /\ pc \in RejectStates
    /\ ~ProceedsOf(client, pc)
    /\ pc' = "REJECT"
    /\ path' = Append(path, "REJECT")
    /\ UNCHANGED <<extraVars, genVars, loaderVars, buildVars, referrer, client, lenient, importMap, specifier, url, expected,
                   response, fetches, loaderCalls>>

\* return import(resolvedUrl)
Import ==
    /\ ProceedsOf(client, pc)
    /\ loaderCalls' = loaderCalls \cup {url}
    /\ pc' = "IMPORT"
    /\ path' = Append(path, "IMPORT")
    /\ UNCHANGED <<extraVars, genVars, loaderVars, buildVars, referrer, client, lenient, importMap, specifier, url, expected,
                   response, fetches>>

Next == Call \/ Resolve \/ Locate \/ Fetch \/ Compare \/ Reject \/ Import

Spec == Init /\ [][Next]_vars

----------------------------------------------------------------------------
(* Properties of the verifiers *)

\* u has no digest of its own, but an alias of u has one
TransitiveCase(u, m) ==
    /\ ~Has(m.integrity, u)
    /\ \E s \in DOMAIN m.imports : m.imports[s] = u /\ Has(m.integrity, s)

\* neither u nor any alias of u has a digest
Unconstrained(u, m) ==
    /\ ~Has(m.integrity, u)
    /\ \A s \in DOMAIN m.imports : m.imports[s] = u => ~Has(m.integrity, s)

Resolved == pc \notin {"IDLE", "START"}

\* C1 Transitive fail-closed (core verifier): when the resolved URL has no
\* integrity entry but an alias of it has one, the call makes no fetch, never
\* hands the URL to the loader and can only end rejected, also when the
\* requested specifier has no integrity entry itself.
C1_TransitiveFailClosed ==
    (client = "core" /\ Resolved /\ TransitiveCase(url, importMap)) =>
        /\ pc \in {"RESOLVED", "TRANSITIVE_HIT", "REJECT"}
        /\ loaderCalls = {}
        /\ fetches = 0

C1_Witness ==
    /\ client = "core"
    /\ pc = "REJECT"
    /\ TransitiveCase(url, importMap)
    /\ specifier # url
    /\ ~Has(importMap.integrity, specifier)

\* C2 Direct check (core verifier): when the resolved URL has an integrity
\* entry, the loader is invoked if and only if a body was fetched and the
\* digest string recomputed from it equals the entry as a whole string;
\* otherwise the call ends rejected without the loader being invoked.
C2_DirectCheck ==
    (client = "core" /\ Resolved /\ Has(importMap.integrity, url)) =>
        LET equal == /\ response.kind \in {"ok", "notok"}
                     /\ [tag |-> "sha384", alg |-> "sha384", of |-> response.body]
                            = importMap.integrity[url]
        IN /\ (url \in loaderCalls => equal)
           /\ (pc = "IMPORT" <=> url \in loaderCalls)
           /\ (pc \in Terminal => (pc = "IMPORT" <=> equal))
           /\ (pc = "REJECT" => loaderCalls = {})

C2_Witness ==
    /\ client = "core"
    /\ pc = "IMPORT"
    /\ Has(importMap.integrity, url)
    /\ response.kind = "ok"
    /\ loaderCalls = {url}

\* C3 Unconstrained pass-through (core verifier): when neither the resolved
\* URL nor any alias of it has an integrity entry, the call makes no fetch
\* for comparison, is never rejected, and ends by handing the URL to the
\* loader.
C3_UnconstrainedPassThrough ==
    (client = "core" /\ Resolved /\ Unconstrained(url, importMap)) =>
        /\ fetches = 0
        /\ pc \in {"RESOLVED", "UNCONSTRAINED", "IMPORT"}
        /\ (pc = "IMPORT" <=> loaderCalls = {url})
        /\ (pc # "IMPORT" => loaderCalls = {})

C3_Witness ==
    /\ client = "core"
    /\ pc = "IMPORT"
    /\ Unconstrained(url, importMap)
    /\ specifier # url
    /\ importMap.integrity # <<>>
    /\ fetches = 0
    /\ loaderCalls = {url}

\* C4 Fail-closed in the React/TypeScript client: a URL that has an integrity
\* constraint (direct or through an alias) is handed to the loader only after
\* validateModuleIntegrity returned true for it.
C4_TsFailClosed ==
    (client = "ts" /\ url \in loaderCalls
        /\ hasIntegrityConstraint(url, importMap)) =>
        \E i \in 1..Len(path) : path[i] = "MATCH"

\* C5 No hash substitution in the JS client: when the resolved URL has no
\* integrity entry but an alias of it has one, the import is rejected for
\* every content served; the URL is never handed to the loader.
C5_NoHashSubstitution ==
    (client = "js" /\ Resolved /\ TransitiveCase(url, importMap)) =>
        /\ pc \notin {"MATCH", "IMPORT"}
        /\ loaderCalls = {}

\* C6 Algorithm rejection in the SHA-384-only verifiers: when the digest the
\* verifier of the TypeScript or of the JS client is called with carries a
\* tag other than sha384, the verifier returns false without fetching, and
\* the call ends rejected without the loader being invoked; the core
\* verifier never imports a URL whose own digest carries another tag.
C6_AlgorithmRejection ==
    /\ (client \in {"ts", "js"} /\ expected # NoDigest /\ expected.tag # "sha384") =>
          /\ pc \in {"ALGO_UNSUPPORTED", "REJECT"}
          /\ fetches = 0
          /\ loaderCalls = {}
    /\ (client \in {"ts", "js", "core"} /\ Resolved
          /\ Has(importMap.integrity, url)
          /\ importMap.integrity[url].tag # "sha384") =>
          /\ pc # "IMPORT"
          /\ pc # "MATCH"
          /\ loaderCalls = {}
          /\ (client # "core" => fetches = 0)

C6_Witness ==
    /\ client \in {"ts", "js"}
    /\ pc = "REJECT"
    /\ expected.tag = "sha256"
    /\ path = <<"START", "RESOLVED", "ALGO_UNSUPPORTED", "REJECT">>

\* C8 Fetch failure rejects (core verifier): when the fetch made for the
\* comparison throws or returns a response that is not ok, the call is
\* rejected and the loader is never invoked.
C8_FetchFailureRejects ==
    (client = "core" /\ response.kind \in {"throw", "notok"}) =>
        /\ pc \notin {"MATCH", "IMPORT"}
        /\ loaderCalls = {}

\* C9 Verification state machine (core verifier): a call ends in one
\* terminal position, IMPORT or REJECT; IMPORT is reached only from
\* UNCONSTRAINED or from a DIRECT_CHECK whose comparison matched; a call
\* fetches at most once; a call that has not ended can always take its
\* next step; from a position where the check has failed the call only
\* moves to REJECT, and neither fetches nor invokes the loader.
C9_PathOk ==
    client = "core" =>
        /\ fetches <= 1
        /\ \A i \in 1..Len(path) : path[i] \in Terminal => i = Len(path)
        /\ (pc \in Terminal => path[Len(path)] = pc)
        /\ (pc = "IMPORT" =>
              \/ path = <<"START", "RESOLVED", "UNCONSTRAINED", "IMPORT">>
              \/ path = <<"START", "RESOLVED", "DIRECT_CHECK", "FETCHED",
                          "MATCH", "IMPORT">>)
        /\ (pc = "REJECT" => loaderCalls = {})
        /\ (pc \notin {"IDLE"} \cup Terminal =>
              ENABLED (Resolve \/ Locate \/ Fetch \/ Compare \/ Reject \/ Import))

C9_RejectStep ==
    (client = "core" /\ pc \in RejectStates \cup {"REJECT"} /\ pc' # "START") =>
        /\ pc' = "REJECT"
        /\ fetches' = fetches
        /\ loaderCalls' = loaderCalls

C9_StateMachine == [](C9_PathOk) /\ [][C9_RejectStep]_vars

C9_Witness ==
    /\ client = "core"
    /\ path = <<"START", "RESOLVED", "DIRECT_CHECK", "FETCHED", "MISMATCH", "REJECT">>
    /\ fetches = 1

----------------------------------------------------------------------------
(* src/src/module-integrity-validator.js: validateBuildOutput, the batch    *)
(* validator of the Vite build output                                       *)

\* the URLs an integrity section of a build names: one with a leading
\* slash, one relative, one absolute
BuildUrls == {"/G", "F", "https://cdn.example/bare2"}

Files == {"G", "F", "bare2"}

\* the URLs the generators produce for the files of a build
GeneratedUrls ==
    {"/G.js", "/lib/G.js", "/F.mjs",
     "/modules/G.js", "/modules/lib/G.js", "/modules/F.mjs"}

startsWithSlash(u) == u \in {"/G", "/bare2"} \cup GeneratedUrls

includesScheme(u) == u \in {"https://cdn.example/bare2"}

\* String.prototype.substring(1) on the strings that occur
substring1(u) ==
    CASE u = "/G" -> "G"
      [] u = "/bare2" -> "bare2"
      [] u = "/G.js" -> "G.js"
      [] u = "/lib/G.js" -> "lib/G.js"
      [] u = "/F.mjs" -> "F.mjs"
      [] u = "/modules/G.js" -> "modules/G.js"
      [] u = "/modules/lib/G.js" -> "modules/lib/G.js"
      [] u = "/modules/F.mjs" -> "modules/F.mjs"
      [] OTHER -> u

\* new URL(url).pathname
pathname(u) ==
    CASE u = "https://cdn.example/bare2" -> "/bare2"
      [] OTHER -> u

\* lines 41-50: the file path of an integrity URL, relative to distDir
filePathOf(u) ==
    IF startsWithSlash(u) THEN substring1(u)
    ELSE IF includesScheme(u) THEN substring1(pathname(u))
    ELSE u

\* crypto.createHash(algorithm).update(content).digest('base64') with the
\* algorithm taken from the tag (lines 70-75); Node knows sha256 and sha384
createHashTagged(content, expectedHash) ==
    [tag |-> expectedHash.tag, alg |-> expectedHash.tag, of |-> content]

\* one iteration of the loop of validateBuildOutput (lines 38-88)
validateEntry(res, u, expectedHash, files) ==
    LET counted == [res EXCEPT !.total = @ + 1]
        fullPath == filePathOf(u)
    IN IF fullPath \notin DOMAIN files \/ files[fullPath] = 0
       THEN [counted EXCEPT
               !.missing = @ + 1,
               !.failures = Append(@, [url |-> u, expected |-> expectedHash,
                                       actual |-> NoDigest,
                                       error |-> "File not found"])]
       ELSE LET actualHash == createHashTagged(files[fullPath], expectedHash) IN
            IF actualHash = expectedHash
            THEN [counted EXCEPT !.passed = @ + 1]
            ELSE [counted EXCEPT
                    !.failed = @ + 1,
                    !.failures = Append(@, [url |-> u, expected |-> expectedHash,
                                            actual |-> actualHash,
                                            error |-> ""])]

BuildMaps ==
    {[imports |-> <<>>, scopes |-> <<>>, integrity |-> g] :
        g \in PartialFns(BuildUrls, DeclaredDigests)}

\* lines 20-35: read the map; no integrity entries ends the process
VboBegin ==
    /\ client = "validateBuildOutput"
    /\ pc = "V_START"
    /\ IF DOMAIN importMap.integrity = {}
       THEN pc' = "EXIT1" /\ todo' = {}
       ELSE pc' = "V_LOOP" /\ todo' = DOMAIN importMap.integrity
    /\ results' = NoResults
    /\ UNCHANGED <<extraVars, genVars, loaderVars, client, lenient, importMap, callVars, disk>>

\* lines 38-88: the next entry of Object.entries(integrity)
VboEntry ==
    /\ client = "validateBuildOutput"
    /\ pc = "V_LOOP"
    /\ \E u \in todo :
          /\ results' = validateEntry(results, u, importMap.integrity[u], disk)
          /\ todo' = todo \ {u}
    /\ UNCHANGED <<extraVars, genVars, loaderVars, client, lenient, importMap, callVars, disk, pc>>

\* lines 90-112: report; any failure ends the process with exit code 1
VboReport ==
    /\ client = "validateBuildOutput"
    /\ pc = "V_LOOP"
    /\ todo = {}
    /\ pc' = IF Len(results.failures) > 0 THEN "EXIT1" ELSE "V_RETURN"
    /\ UNCHANGED <<extraVars, genVars, loaderVars, client, lenient, importMap, callVars, buildVars>>

----------------------------------------------------------------------------
(* The implementations that take the hash algorithm from the digest's tag *)

InitTagged ==
    \/ /\ client \in {"legacy", "vite"}
       /\ lenient \in BOOLEAN
       /\ importMap \in Maps
       /\ InitCall
       /\ InitBuild
    \/ /\ client = "validateBuildOutput"
       /\ lenient = FALSE
       /\ importMap \in BuildMaps
       /\ specifier = NoKey
       /\ url = NoKey
       /\ pc = "V_START"
       /\ expected = NoDigest
       /\ response = NoResponse
       /\ fetches = 0
       /\ loaderCalls = {}
       /\ path = <<>>
       /\ referrer = <<>>
       /\ disk \in [Files -> 0..MaxContent]
       /\ todo = {}
       /\ results = NoResults
       /\ InitGen
       /\ InitLoader
       /\ InitExtra

NextTagged == Next \/ VboBegin \/ VboEntry \/ VboReport

SpecTagged == InitTagged /\ [][NextTagged]_vars

\* C7 Other algorithm tags are rejected: in the legacy client, in the helper
\* emitted by the Vite plugin and in validateBuildOutput, an integrity entry
\* whose tag is not sha384 never results in an accepted module (imported,
\* or counted as passed).
C7_OtherTagsRejected ==
    /\ (client \in {"legacy", "vite"} /\ expected # NoDigest
          /\ expected.tag # "sha384") =>
          /\ pc \notin {"MATCH", "IMPORT"}
          /\ loaderCalls = {}
    /\ (client = "validateBuildOutput" /\ pc \in {"V_LOOP", "V_RETURN", "EXIT1"}) =>
          results.passed <=
              Cardinality({u \in DOMAIN importMap.integrity \ todo :
                              importMap.integrity[u].tag = "sha384"})

----------------------------------------------------------------------------
(* Resolution of a specifier against a map that has scopes *)

\* URLs as sequences of path segments, so that "is a URL prefix of" is
\* computed: /app/ and /app/admin/ are the scope prefixes
ScopePrefixes == {<<"app">>, <<"app", "admin">>}

Referrers ==
    {<<"app", "admin", "page.js">>, <<"app", "main.js">>, <<"lib", "util.js">>}

\* the specifiers a scope may override
ScopedSpecifiers == {"G", "bare2"}

IsPrefix(p, r) == Len(p) <= Len(r) /\ SubSeq(r, 1, Len(p)) = p

ScopedMaps ==
    {[imports |-> i, scopes |-> sc, integrity |-> <<>>] :
        i \in PartialFns(Keys, Keys),
        sc \in PartialFns(ScopePrefixes, PartialFns(ScopedSpecifiers, Keys))}

\* the resolution the specification describes: the scope with the longest
\* prefix matching the referrer among those that contain the specifier, else
\* imports, else the specifier itself
ScopedResolve(s, ref, m) ==
    LET matching == {q \in DOMAIN m.scopes : IsPrefix(q, ref) /\ Has(m.scopes[q], s)}
    IN IF matching # {}
       THEN LET longest == CHOOSE q \in matching :
                               \A o \in matching : Len(o) <= Len(q)
            IN m.scopes[longest][s]
       ELSE IF Has(m.imports, s) THEN m.imports[s] ELSE s

InitResolve ==
    /\ client \in {"core", "ts"}
    /\ lenient = FALSE
    /\ importMap \in ScopedMaps
    /\ InitCall
    /\ InitBuild

\* an import of s made by the module at ref: the resolvers take the
\* specifier (and the map), the referrer is not among their parameters
CallFrom ==
    /\ pc \in {"IDLE", "RESOLVED"}
    /\ \E s \in Keys, ref \in Referrers :
          /\ specifier' = s
          /\ referrer' = ref
    /\ url' = NoKey
    /\ pc' = "START"
    /\ path' = <<"START">>
    /\ UNCHANGED <<extraVars, genVars, loaderVars, client, lenient, importMap, buildVars, expected, response,
                   fetches, loaderCalls>>

NextResolve == CallFrom \/ Resolve

SpecResolve == InitResolve /\ [][NextResolve]_vars

\* C10 Resolution: resolve returns the mapping of the scope with the longest
\* prefix matching the referrer that contains the specifier; otherwise
\* imports[specifier] when the specifier is a key of imports; otherwise the
\* specifier itself.
C10_Resolution ==
    pc = "RESOLVED" => url = ScopedResolve(specifier, referrer, importMap)

----------------------------------------------------------------------------
(* Build-time generation: generateImportMapWithIntegrity and the            *)
(* NextJSModuleIntegrityPlugin, followed by validateNextJSBuildIntegrity    *)

\* the files of a build, named relative to the output directory
ModulePaths == {"G.js", "lib/G.js", "F.mjs"}

\* the base URL handed to the generator: the default, and a module prefix
BaseUrls == {"/", "/modules"}

\* path.extname
extname(p) ==
    CASE p \in {"G.js", "lib/G.js"} -> ".js"
      [] p = "F.mjs" -> ".mjs"
      [] OTHER -> ""

\* path.basename(p, ext): the last segment of p without the suffix ext
basename(p, ext) ==
    CASE p = "G.js" /\ ext = ".js" -> "G"
      [] p = "lib/G.js" /\ ext = ".js" -> "G"
      [] p = "lib/G.js" -> "G.js"
      [] p = "F.mjs" /\ ext = ".mjs" -> "F"
      [] OTHER -> p

\* `/${modulePath}`
slashed(p) ==
    CASE p = "G.js" -> "/G.js"
      [] p = "lib/G.js" -> "/lib/G.js"
      [] p = "F.mjs" -> "/F.mjs"
      [] OTHER -> p

\* path.join(baseUrl, normalizedPath).replace(/\\/g, "/")
pathJoin(base, np) ==
    CASE base = "/" -> np
      [] base = "/modules" /\ np = "/G.js" -> "/modules/G.js"
      [] base = "/modules" /\ np = "/lib/G.js" -> "/modules/lib/G.js"
      [] base = "/modules" /\ np = "/F.mjs" -> "/modules/F.mjs"
      [] OTHER -> np

\* name.endsWith(".js")
endsWithJs(p) == p \in {"G.js", "lib/G.js"}

\* module-integrity-typescript.ts calculateIntegrity: createHash("sha384")
calculateIntegrityNode(content) ==
    [tag |-> "sha384", alg |-> "sha384", of |-> content]

\* lines 128-132: the URL the generator derives for a module path
generatedUrl(modulePath, base) ==
    LET normalizedPath == IF startsWithSlash(modulePath) THEN modulePath
                          ELSE slashed(modulePath)
    IN pathJoin(base, normalizedPath)

\* mutant: a specifier that is already in imports keeps its URL
setEntry_FirstWins(m, s, u, d) ==
    [m EXCEPT
       !.imports = [k \in DOMAIN m.imports \cup {s} |->
                       IF k \in DOMAIN m.imports THEN m.imports[k] ELSE u],
       !.integrity = [k \in DOMAIN m.integrity \cup {u} |->
                       IF k = u THEN d ELSE m.integrity[k]]]

\* lines 131-135: imports[specifier] = url; integrity[url] = digest
setEntry(m, s, u, d) ==
    [m EXCEPT
       !.imports = [k \in DOMAIN m.imports \cup {s} |->
                       IF k = s THEN u ELSE m.imports[k]],
       !.integrity = [k \in DOMAIN m.integrity \cup {u} |->
                       IF k = u THEN d ELSE m.integrity[k]]]

\* mutant: the digest is keyed by the specifier instead of the URL
generateEntry_KeyedBySpecifier(m, e, base) ==
    setEntry(m, basename(e.path, extname(e.path)),
             basename(e.path, extname(e.path)),
             calculateIntegrityNode(e.content))

\* one iteration of the loop of generateImportMapWithIntegrity
generateEntry(m, e, base) ==
    setEntry(m, basename(e.path, extname(e.path)),
             generatedUrl(e.path, base), calculateIntegrityNode(e.content))

\* NextJSModuleIntegrityPlugin.calculateIntegrity with this.algorithm
pluginCalculateIntegrity(content) ==
    [tag |-> "sha384", alg |-> "sha384", of |-> content]

\* NextJSModuleIntegrityPlugin.addToImportMap
addToImportMap(m, assetName, integrity) ==
    setEntry(m, basename(assetName, extname(assetName)), slashed(assetName),
             integrity)

\* the inputs: a record of path -> content, in insertion order
Inputs ==
    {ms \in UNION {[1..n -> [path : ModulePaths, content : Contents]] :
                       n \in 0..Cardinality(ModulePaths)} :
        \A i, j \in DOMAIN ms : ms[i].path = ms[j].path => i = j}

\* the output directory that holds exactly the files of the input
DiskOf(ms) ==
    [p \in ModulePaths |->
        IF \E i \in DOMAIN ms : ms[i].path = p
        THEN (CHOOSE e \in {ms[i] : i \in DOMAIN ms} : e.path = p).content
        ELSE 0]

\* mutant: a run goes on with the map of the run before
freshLocals_Kept(m) == m

\* the locals of a generator run: const imports = {}, integrity = {}
freshLocals(m) == NoMap

\* mutant: the generator without its invariant on the input
nonEmpty_Unchecked(ms) == TRUE

\* invariant(Object.keys(modules).length > 0, ...)
nonEmpty(ms) == Len(ms) > 0

\* lines 117-123 of a call on the input ms: an empty input throws
\* ModuleIntegrityError, otherwise the loop starts on fresh locals
GenStart(ms) ==
    /\ modules' = ms
    /\ IF nonEmpty(ms)
       THEN pc' = "G_LOOP" /\ importMap' = freshLocals(importMap)
       ELSE pc' = "G_THROW" /\ importMap' = importMap
    /\ cursor' = 0

\* the first call of the generator, on the files of the output directory
GenBegin ==
    /\ client = "generator"
    /\ pc = "G_START"
    /\ GenStart(modules)
    /\ UNCHANGED <<extraVars, client, lenient, callVars, buildVars, loaderVars,
                   baseUrl, firstModules, firstMap>>

\* lines 126-136: the next entry of Object.entries(modules)
GenEntry ==
    /\ client = "generator"
    /\ pc = "G_LOOP"
    /\ cursor < Len(modules)
    /\ importMap' = generateEntry(importMap, modules[cursor + 1], baseUrl)
    /\ cursor' = cursor + 1
    /\ UNCHANGED <<extraVars, client, lenient, callVars, buildVars, loaderVars, modules,
                   baseUrl, firstModules, firstMap, pc>>

\* line 138: return { imports, integrity }
GenReturn ==
    /\ client = "generator"
    /\ pc = "G_LOOP"
    /\ cursor = Len(modules)
    /\ pc' = "G_RETURN"
    /\ IF firstModules = <<>>
       THEN firstModules' = modules /\ firstMap' = importMap
       ELSE UNCHANGED <<firstModules, firstMap>>
    /\ UNCHANGED <<extraVars, client, lenient, importMap, callVars, buildVars,
                   loaderVars, modules, baseUrl, cursor>>

\* a later call of the generator, on the files of a later build: any input
\* after a run on the first run's input, and otherwise the first run's input
\* or the last one again (runs on other inputs in between leave no more
\* state behind than one such run does)
GenAgain ==
    /\ client = "generator"
    /\ pc \in {"G_RETURN", "G_THROW"}
    /\ \E ms \in (IF modules = firstModules THEN Inputs
                   ELSE {firstModules, modules}) :
          /\ GenStart(ms)
          /\ disk' = DiskOf(ms)
    /\ UNCHANGED <<extraVars, client, lenient, callVars, loaderVars, baseUrl,
                   firstModules, firstMap, todo, results>>

\* import-map.ts lines 265-287: the processAssets hook takes the next asset,
\* skips it unless its name ends with ".js", and adds it to this.importMap
PluginAsset ==
    /\ client = "plugin"
    /\ pc = "G_START"
    /\ cursor < Len(modules)
    /\ LET asset == modules[cursor + 1] IN
       importMap' = IF endsWithJs(asset.path)
                    THEN addToImportMap(importMap, asset.path,
                                        pluginCalculateIntegrity(asset.content))
                    ELSE importMap
    /\ cursor' = cursor + 1
    /\ UNCHANGED <<extraVars, client, lenient, callVars, buildVars, loaderVars, modules,
                   baseUrl, firstModules, firstMap, pc>>

\* import-map.ts lines 289-294: the map is emitted as importmap.json
PluginEmit ==
    /\ client = "plugin"
    /\ pc = "G_START"
    /\ cursor = Len(modules)
    /\ pc' = "G_RETURN"
    /\ UNCHANGED <<extraVars, client, lenient, importMap, callVars, buildVars,
                   loaderVars, genVars>>

\* after generation the content of one file of the output directory changes
Tamper ==
    /\ pc = "G_RETURN"
    /\ disk = DiskOf(modules)
    /\ \E p \in ModulePaths, c \in Contents :
          /\ disk[p] # 0
          /\ c # disk[p]
          /\ disk' = [disk EXCEPT ![p] = c]
    /\ UNCHANGED <<extraVars, client, lenient, importMap, callVars, loaderVars, genVars,
                   pc, todo, results>>

\* after generation one file of the output directory is removed
Remove ==
    /\ pc = "G_RETURN"
    /\ disk = DiskOf(modules)
    /\ \E p \in ModulePaths :
          /\ disk[p] # 0
          /\ disk' = [disk EXCEPT ![p] = 0]
    /\ UNCHANGED <<extraVars, client, lenient, importMap, callVars, loaderVars, genVars,
                   pc, todo, results>>

\* validator lines 162-169
NoNextResults == [total |-> 0, passed |-> 0, failed |-> 0, missing |-> 0,
                  failures |-> <<>>, success |-> FALSE]

UnsupportedError == "Unsupported hash algorithm. Only SHA-384 is supported."

\* mutant: the validator without its test of the tag
startsWithAlgorithm_Any(expectedHash) == TRUE

\* validator line 176: expectedHash.startsWith("sha384-")
startsWithAlgorithm(expectedHash) == expectedHash.tag = "sha384"

\* validator line 218: crypto.createHash("sha384") of the file's content
createHashSha384(content) ==
    [tag |-> "sha384", alg |-> "sha384", of |-> content]

\* mutant: a missing file is counted in missing and in failed, and an entry
\* that does not match is counted without a failure record
nextValidateEntry_Miscounted(res, u, expectedHash, files) ==
    LET counted == [res EXCEPT !.total = @ + 1]
        fullPath == filePathOf(u)
    IN IF ~startsWithAlgorithm(expectedHash)
       THEN [counted EXCEPT
               !.failed = @ + 1,
               !.failures = Append(@, [url |-> u, expected |-> expectedHash,
                                       actual |-> NoDigest,
                                       error |-> UnsupportedError])]
       ELSE IF fullPath \notin DOMAIN files \/ files[fullPath] = 0
       THEN [counted EXCEPT
               !.missing = @ + 1,
               !.failed = @ + 1,
               !.failures = Append(@, [url |-> u, expected |-> expectedHash,
                                       actual |-> NoDigest,
                                       error |-> "File not found"])]
       ELSE IF createHashSha384(files[fullPath]) = expectedHash
            THEN [counted EXCEPT !.passed = @ + 1]
            ELSE [counted EXCEPT !.failed = @ + 1]

\* one iteration of the loop of validateNextJSBuildIntegrity (lines 172-233)
nextValidateEntry(res, u, expectedHash, files) ==
    LET counted == [res EXCEPT !.total = @ + 1]
        fullPath == filePathOf(u)
    IN IF ~startsWithAlgorithm(expectedHash)
       THEN [counted EXCEPT
               !.failed = @ + 1,
               !.failures = Append(@, [url |-> u, expected |-> expectedHash,
                                       actual |-> NoDigest,
                                       error |-> UnsupportedError])]
       ELSE IF fullPath \notin DOMAIN files \/ files[fullPath] = 0
       THEN [counted EXCEPT
               !.missing = @ + 1,
               !.failures = Append(@, [url |-> u, expected |-> expectedHash,
                                       actual |-> NoDigest,
                                       error |-> "File not found"])]
       ELSE LET actualHash == createHashSha384(files[fullPath]) IN
            IF actualHash = expectedHash
            THEN [counted EXCEPT !.passed = @ + 1]
            ELSE [counted EXCEPT
                    !.failed = @ + 1,
                    !.failures = Append(@, [url |-> u, expected |-> expectedHash,
                                            actual |-> actualHash,
                                            error |-> ""])]

\* mutant: success looks at the failed counter alone
successOf_FailedOnly(res) == res.failed = 0

\* validator lines 242-258: success when no failure was recorded
successOf(res) == Len(res.failures) = 0

\* validator lines 146-169: read the map; no integrity entries throws
NvBegin ==
    /\ pc \in {"N_START", "G_RETURN"}
    /\ IF DOMAIN importMap.integrity = {}
       THEN pc' = "N_THROW" /\ todo' = {}
       ELSE pc' = "N_LOOP" /\ todo' = DOMAIN importMap.integrity
    /\ results' = NoNextResults
    /\ UNCHANGED <<extraVars, client, lenient, importMap, callVars, loaderVars, genVars,
                   disk>>

\* validator lines 172-233: the next entry of Object.entries(integrity)
NvEntry ==
    /\ pc = "N_LOOP"
    /\ \E u \in todo :
          /\ results' = nextValidateEntry(results, u, importMap.integrity[u],
                                          disk)
          /\ todo' = todo \ {u}
    /\ UNCHANGED <<extraVars, client, lenient, importMap, callVars, loaderVars, genVars,
                   disk, pc>>

\* validator lines 242-260: set success and return the results
NvReturn ==
    /\ pc = "N_LOOP"
    /\ todo = {}
    /\ results' = [results EXCEPT !.success = successOf(results)]
    /\ pc' = "N_RETURN"
    /\ UNCHANGED <<extraVars, client, lenient, importMap, callVars, loaderVars, genVars,
                   disk, todo>>

\* a generator is about to run on the files of the output directory
InitGenerate ==
    /\ client \in {"generator", "plugin"}
    /\ importMap = NoMap
    /\ modules \in Inputs
    /\ baseUrl \in (IF client = "generator" THEN BaseUrls ELSE {"/"})
    /\ pc = "G_START"
    /\ disk = DiskOf(modules)

\* a validator is about to run on some map and some output directory
InitValidate ==
    \/ /\ client = "validateNextJSBuildIntegrity"
       /\ importMap \in BuildMaps
       /\ modules = <<>>
       /\ baseUrl = "/"
       /\ pc = "N_START"
       /\ disk \in [Files -> 0..MaxContent]
    \/ /\ client = "validateBuildOutput"
       /\ importMap \in BuildMaps
       /\ modules = <<>>
       /\ baseUrl = "/"
       /\ pc = "V_START"
       /\ disk \in [Files -> 0..MaxContent]

InitRest ==
    /\ lenient = FALSE
    /\ specifier = NoKey
    /\ url = NoKey
    /\ expected = NoDigest
    /\ response = NoResponse
    /\ fetches = 0
    /\ loaderCalls = {}
    /\ path = <<>>
    /\ referrer = <<>>
    /\ cursor = 0
    /\ firstModules = <<>>
    /\ firstMap = NoMap
    /\ todo = {}
    /\ results = NoResults
    /\ InitLoader
    /\ InitExtra

\* generator runs, one after the other
NextGenerate ==
    \/ GenBegin \/ GenEntry \/ GenReturn \/ GenAgain
    \/ PluginAsset \/ PluginEmit

InitGenerateSpec == InitGenerate /\ InitRest

SpecGenerate == InitGenerateSpec /\ [][NextGenerate]_vars

\* one generation followed by a validation of the output directory, and
\* validations of arbitrary maps against arbitrary output directories
NextBuild ==
    \/ GenBegin \/ GenEntry \/ GenReturn
    \/ PluginAsset \/ PluginEmit
    \/ Tamper \/ Remove
    \/ NvBegin \/ NvEntry \/ NvReturn
    \/ VboBegin \/ VboEntry \/ VboReport

InitBuildSpec == (InitGenerate \/ InitValidate) /\ InitRest

SpecBuild == InitBuildSpec /\ [][NextBuild]_vars

----------------------------------------------------------------------------
(* Properties of generation *)

\* the input entries a generator run has entered into the map so far
Entered ==
    IF client = "generator" /\ pc \in {"G_LOOP", "G_RETURN"}
    THEN {modules[i] : i \in 1..cursor}
    ELSE IF client = "plugin" /\ pc \in {"G_START", "G_RETURN"}
    THEN {e \in {modules[i] : i \in 1..cursor} : endsWithJs(e.path)}
    ELSE {}

\* the URL the claim names for a path: the join of the base URL and the
\* path for the generator, "/" + assetName for the plugin
UrlOfPath(p) ==
    IF client = "plugin" THEN slashed(p) ELSE generatedUrl(p, baseUrl)

C12_EmptyInputError ==
    client = "generator" =>
        /\ (modules = <<>> /\ pc # "G_START") => pc = "G_THROW"
        /\ pc = "G_RETURN" =>
              /\ DOMAIN importMap.imports # {}
              /\ DOMAIN importMap.integrity # {}

\* the generator was called with {} after an earlier run returned a map
C12_Witness ==
    /\ client = "generator"
    /\ modules = <<>>
    /\ pc = "G_THROW"
    /\ firstMap # NoMap

\* C13 Determinism of generation: a run of the generator on the entries of
\* the first run produces the imports and the digest of every URL that the
\* first run produced, whatever runs were made in between.
C13_Determinism ==
    (/\ client = "generator"
     /\ firstModules # <<>>
     /\ modules = firstModules
     /\ \/ pc = "G_RETURN"
        \/ pc = "G_LOOP" /\ cursor = Len(modules)) =>
        importMap = firstMap

\* a later run on the entries of the first run has processed all of them;
\* two of the entries share a specifier
C13_Witness ==
    /\ client = "generator"
    /\ firstModules # <<>>
    /\ modules = firstModules
    /\ pc = "G_LOOP"
    /\ cursor = Len(modules)
    /\ Len(modules) = 3

\* C28 Specifier collision in generation: when a run of the generator or of
\* the plugin has returned, imports maps the specifier of every entry it
\* entered to the URL of the last entry entered with that specifier, and
\* integrity holds a digest for the URL of every entry it entered.
C28_SpecifierCollision ==
    (client \in {"generator", "plugin"} /\ pc = "G_RETURN") =>
        LET entered == {i \in DOMAIN modules : modules[i] \in Entered}
            specifierOf(i) == basename(modules[i].path, extname(modules[i].path))
            last(i) == CHOOSE j \in entered :
                          /\ specifierOf(j) = specifierOf(i)
                          /\ \A k \in entered :
                                specifierOf(k) = specifierOf(i) => k <= j
        IN \A i \in entered :
              /\ Has(importMap.imports, specifierOf(i))
              /\ importMap.imports[specifierOf(i)] =
                    UrlOfPath(modules[last(i)].path)
              /\ Has(importMap.integrity, UrlOfPath(modules[i].path))

\* a run over lib/G.js and then G.js, which share the specifier G, has
\* returned one import and two digests
C28_Witness ==
    /\ pc = "G_RETURN"
    /\ Len(modules) = 2
    /\ modules[1].path = "lib/G.js"
    /\ modules[2].path = "G.js"
    /\ Cardinality(DOMAIN importMap.imports) = 1
    /\ Cardinality(DOMAIN importMap.integrity) = 2
    /\ importMap.imports["G"] = UrlOfPath("G.js")

----------------------------------------------------------------------------
(* Properties of build validation *)

\* the validation runs on the output directory as it was generated from
Unmodified == client \in {"generator", "plugin"} /\ disk = DiskOf(modules)

\* C14 Round-trip: validating the unmodified output directory against the
\* map generated from its files reports failed = 0, missing = 0 and
\* passed = number of integrity entries.
C14_RoundTrip ==
    (Unmodified /\ pc = "N_RETURN") =>
        /\ results.failed = 0
        /\ results.missing = 0
        /\ results.passed = Cardinality(DOMAIN importMap.integrity)

\* the files whose content differs from what the map was generated from
Changed ==
    {p \in ModulePaths : p \in DOMAIN disk /\ disk[p] # DiskOf(modules)[p]}

\* what the validator records for one entry on the directory as generated
Untampered(u) ==
    nextValidateEntry(NoNextResults, u, importMap.integrity[u],
                      DiskOf(modules))

FailuresOf(res, u) ==
    {res.failures[i] : i \in {j \in DOMAIN res.failures :
                                  res.failures[j].url = u}}

\* C15 Tamper detection: when the content of exactly one module changed
\* after generation, the validator records that module's URL in failures
\* with expected different from actual and counts it in failed, and what it
\* records for every other integrity entry is what the untampered run
\* records.
C15_TamperDetection ==
    (/\ client \in {"generator", "plugin"}
     /\ pc = "N_RETURN"
     /\ \E p \in ModulePaths :
           /\ Changed = {p}
           /\ disk[p] # 0
           /\ Has(importMap.integrity, UrlOfPath(p))) =>
        LET p == CHOOSE q \in ModulePaths : Changed = {q}
            others == DOMAIN importMap.integrity \ {UrlOfPath(p)}
        IN /\ \E f \in FailuresOf(results, UrlOfPath(p)) :
                 /\ f.actual # NoDigest
                 /\ f.expected # f.actual
           /\ \A u \in others :
                 FailuresOf(results, u) = FailuresOf(Untampered(u), u)
           /\ results.failed =
                 1 + Cardinality({u \in others : Untampered(u).failed = 1})
           /\ results.passed =
                 Cardinality({u \in others : Untampered(u).passed = 1})
           /\ results.missing =
                 Cardinality({u \in others : Untampered(u).missing = 1})

\* the URL of an integrity entry maps to no file of the output directory
MissingFile(u) ==
    filePathOf(u) \notin DOMAIN disk \/ disk[filePathOf(u)] = 0

\* a validation has gone through its loop
Validated == pc \in {"N_RETURN", "V_RETURN", "EXIT1"}

\* C16 Missing file in batch validation: when a validation is over, every
\* integrity entry whose URL maps to no file has a failure with the reason
\* "File not found" and is counted in missing and in neither passed nor
\* failed, and every entry of the map has been processed.
C16_MissingFile ==
    Validated =>
        LET entries == DOMAIN importMap.integrity
            gone == {u \in entries : MissingFile(u)}
        IN /\ \A u \in gone :
                 \E f \in FailuresOf(results, u) : f.error = "File not found"
           /\ results.missing = Cardinality(gone)
           /\ results.passed + results.failed = Cardinality(entries \ gone)
           /\ results.total = Cardinality(entries)

\* the integrity entries whose tag is not the supported algorithm
Unsupported ==
    {u \in DOMAIN importMap.integrity : importMap.integrity[u].tag # "sha384"}

\* C17 Unsupported algorithm in batch validation: when
\* validateNextJSBuildIntegrity returns, every integrity entry whose tag is
\* not sha384 has exactly one failure, with the unsupported-algorithm reason
\* and without a computed digest; it is counted in failed and not in missing
\* or passed, and the remaining entries have been validated.
C17_UnsupportedAlgorithm ==
    pc = "N_RETURN" =>
        LET entries == DOMAIN importMap.integrity
            gone == {u \in entries \ Unsupported : MissingFile(u)}
            good == {u \in entries \ (Unsupported \cup gone) :
                        importMap.integrity[u].of = disk[filePathOf(u)]}
        IN /\ \A u \in Unsupported :
                 FailuresOf(results, u) =
                    {[url |-> u, expected |-> importMap.integrity[u],
                      actual |-> NoDigest, error |-> UnsupportedError]}
           /\ UnsupportedError \notin {"", "File not found"}
           /\ results.missing = Cardinality(gone)
           /\ results.passed = Cardinality(good)
           /\ results.failed = Cardinality(entries \ (gone \cup good))
           /\ results.total = Cardinality(entries)

\* a run has returned in which an entry with another tag has no file, a
\* second entry passed and a third one has no file
C17_Witness ==
    /\ pc = "N_RETURN"
    /\ \E u \in Unsupported : MissingFile(u)
    /\ results.passed = 1
    /\ results.missing = 1
    /\ results.failed = 1

\* C18 The result of validateNextJSBuildIntegrity has success = true if and
\* only if failed = 0 and missing = 0.
C18_SuccessIff ==
    pc = "N_RETURN" =>
        (results.success <=> (results.failed = 0 /\ results.missing = 0))

\* a run has returned without success in which nothing failed and a file
\* was missing, next to an entry that passed
C18_Witness ==
    /\ pc = "N_RETURN"
    /\ ~results.success
    /\ results.failed = 0
    /\ results.missing = 1
    /\ results.passed = 1

\* C19 Batch validation never throws or aborts for a per-entry problem: a
\* validator that has started on the entries of a map neither throws nor
\* ends the process; when it hands back its counts every entry has been
\* processed.
C19_NeverAborts ==
    /\ pc \in {"EXIT1", "N_THROW"} => DOMAIN importMap.integrity = {}
    /\ pc \in {"N_RETURN", "V_RETURN"} =>
          results.total = Cardinality(DOMAIN importMap.integrity)

\* C27 Validator counter invariant: while validateNextJSBuildIntegrity goes
\* through the integrity entries and when it has returned, total = passed +
\* failed + missing = the number of entries processed, failures holds
\* failed + missing records, one for each of as many processed entries, and
\* at the end total is the number of integrity entries.
C27_CounterInvariant ==
    pc \in {"N_LOOP", "N_RETURN"} =>
        LET entries == DOMAIN importMap.integrity
            recorded == {results.failures[i].url : i \in DOMAIN results.failures}
        IN /\ results.total = results.passed + results.failed + results.missing
           /\ results.total = Cardinality(entries \ todo)
           /\ Len(results.failures) = results.failed + results.missing
           /\ Cardinality(recorded) = Len(results.failures)
           /\ recorded \subseteq entries \ todo
           /\ pc = "N_RETURN" => results.total = Cardinality(entries)

\* the validator is in its loop after an entry that passed and one whose
\* file is missing, with an entry still to come
C27_Witness ==
    /\ pc = "N_LOOP"
    /\ results.passed = 1
    /\ results.missing = 1
    /\ results.failed = 0
    /\ todo # {}

----------------------------------------------------------------------------
(* Runtime map updates: IntegrityModuleLoader.addModule *)

\* the addModule calls that may be in flight at the same time
Adders == {"a1", "a2"}

IdleAdd == [at |-> "idle", s |-> NoKey, u |-> NoKey]

\* the maps a loader is constructed with: sha384 digests only
LoaderMaps ==
    {[imports |-> i, scopes |-> <<>>, integrity |-> g] :
        i \in PartialFns(Keys, Keys),
        g \in PartialFns(Keys, {[tag |-> "sha384", alg |-> "sha384",
                                 of |-> 1]})}

\* part_004 calculateIntegrity (lines 39-53): SHA-384 of the text
calculateIntegrityTs(content) ==
    [tag |-> "sha384", alg |-> "sha384", of |-> content]

\* this.importMap.imports[specifier] = url
setImport(m, s, u) ==
    [m EXCEPT !.imports = [k \in DOMAIN m.imports \cup {s} |->
                              IF k = s THEN u ELSE m.imports[k]]]

\* this.importMap.integrity[url] = <digest>
setIntegrity(m, u, d) ==
    [m EXCEPT !.integrity = [k \in DOMAIN m.integrity \cup {u} |->
                                IF k = u THEN d ELSE m.integrity[k]]]

\* injectImportMap: a script holding JSON.stringify(importMap) is appended
injectImportMap(doc, m) == Append(doc, m)

InitLoaderSpec ==
    /\ client = "loader"
    /\ lenient = FALSE
    /\ importMap \in LoaderMaps
    /\ InitCall
    /\ disk = <<>>
    /\ todo = {}
    /\ results = NoResults
    /\ InitGen
    /\ InitExtra
    /\ adds = [a \in Adders |-> IdleAdd]
    /\ document \in {<<>>, <<importMap>>}
    /\ map0 = importMap

\* addModule(s, u) up to its await: imports[s] = u is written, then the
\* fetch of u is started
AddModule ==
    /\ client = "loader"
    /\ \E a \in Adders, s \in Keys, u \in Keys :
          /\ adds[a].at = "idle"
          /\ importMap' = setImport(importMap, s, u)
          /\ adds' = [adds EXCEPT ![a] = [at |-> "await", s |-> s, u |-> u]]
    /\ UNCHANGED <<extraVars, client, lenient, callVars, buildVars, genVars, pc,
                   document, map0>>

\* fetchAndCalculateIntegrity(u) resolves: integrity[u] is written and the
\* map is injected into the document
AddResolve ==
    /\ client = "loader"
    /\ \E a \in Adders, content \in Contents :
          /\ adds[a].at = "await"
          /\ importMap' = setIntegrity(importMap, adds[a].u,
                                       calculateIntegrityTs(content))
          /\ document' = injectImportMap(document, importMap')
          /\ adds' = [adds EXCEPT ![a].at = "done"]
    /\ UNCHANGED <<extraVars, client, lenient, callVars, buildVars, genVars, pc, map0>>

\* fetch(u) rejects: addModule rejects, nothing after the await runs
AddReject ==
    /\ client = "loader"
    /\ \E a \in Adders :
          /\ adds[a].at = "await"
          /\ adds' = [adds EXCEPT ![a].at = "failed"]
    /\ UNCHANGED <<extraVars, client, lenient, importMap, callVars, buildVars, genVars,
                   pc, document, map0>>

NextLoader == AddModule \/ AddResolve \/ AddReject

SpecLoader == InitLoaderSpec /\ [][NextLoader]_vars

\* the addModule calls that have started
Started == {a \in Adders : adds[a].at # "idle"}

\* the entries of the initial map other than those for the s and u of the
\* started calls are in m, unchanged
Monotonic(m) ==
    /\ \A k \in DOMAIN map0.imports \ {adds[a].s : a \in Started} :
          Has(m.imports, k) /\ m.imports[k] = map0.imports[k]
    /\ \A k \in DOMAIN map0.integrity \ {adds[a].u : a \in Started} :
          Has(m.integrity, k) /\ m.integrity[k] = map0.integrity[k]

\* m has the mapping s -> u that a call added to the initial map, and no
\* digest for u
HalfWritten(m) ==
    \E a \in Started :
        /\ ~(Has(map0.imports, adds[a].s) /\ map0.imports[adds[a].s] = adds[a].u)
        /\ Has(m.imports, adds[a].s)
        /\ m.imports[adds[a].s] = adds[a].u
        /\ ~Has(m.integrity, adds[a].u)

\* the maps a reader can see: the loader's map and the injected scripts
Visible == {importMap} \cup {document[i] : i \in DOMAIN document}

\* C20 Runtime map updates are monotonic and never expose a half-written
\* map: in the loader's map and in every map injected into the document,
\* the entries of the initial map other than those for the s and u of the
\* addModule calls are still there and unchanged, and a mapping s -> u
\* added by addModule never appears without integrity[u].
C20_MonotonicNoHalfWritten ==
    \A m \in Visible : Monotonic(m) /\ ~HalfWritten(m)

----------------------------------------------------------------------------
(* Successive compilations handled by one NextJSModuleIntegrityPlugin *)

InitRebuild == InitGenerateSpec /\ client = "plugin"

\* the compiler starts another compilation (a rebuild in watch mode): the
\* hooks tapped in apply run again, on the same plugin instance, whose
\* this.importMap was created in the constructor
PluginRecompile ==
    /\ client = "plugin"
    /\ pc = "G_RETURN"
    /\ \E ms \in Inputs :
          /\ modules' = ms
          /\ disk' = DiskOf(ms)
    /\ cursor' = 0
    /\ pc' = "G_START"
    /\ UNCHANGED <<extraVars, client, lenient, importMap, callVars, loaderVars,
                   baseUrl, firstModules, firstMap, todo, results>>

NextRebuild == PluginAsset \/ PluginEmit \/ PluginRecompile

SpecRebuild == InitRebuild /\ [][NextRebuild]_vars

\* the URLs of the .js assets of the current compilation
AssetUrls ==
    {slashed(modules[i].path) :
        i \in {j \in DOMAIN modules : endsWithJs(modules[j].path)}}

\* C26 Each build supersedes the map wholesale: the import map emitted by a
\* compilation of the NextJS plugin has imports and integrity entries only
\* for the assets of that compilation.
C26_BuildSupersedesMap ==
    (client = "plugin" /\ pc = "G_RETURN") =>
        /\ DOMAIN importMap.integrity \subseteq AssetUrls
        /\ \A s \in DOMAIN importMap.imports : importMap.imports[s] \in AssetUrls

----------------------------------------------------------------------------
(* The import map read from the document *)

\* a script of type importmap whose text JSON.parse rejects
Unparseable ==
    [imports |-> <<>>, scopes |-> <<>>, integrity |-> <<>>, text |-> "{"]

\* getImportMap: the first importmap script of the document, parsed; null
\* (here the map without entries, which every caller treats like null) when
\* there is no such script or its text does not parse
getImportMap(doc) ==
    IF doc = <<>> THEN NoMap
    ELSE IF doc[1] = Unparseable THEN NoMap
    ELSE doc[1]

\* a page with no import map script, with one that parses, or with one
\* that does not; the document clients read the map from the page
InitDocument ==
    /\ client \in {"ts", "js"}
    /\ lenient = FALSE
    /\ document \in {<<>>, <<Unparseable>>} \cup {<<m>> : m \in LoaderMaps}
    /\ importMap = getImportMap(document)
    /\ InitCall
    /\ disk = <<>>
    /\ todo = {}
    /\ results = NoResults
    /\ InitGen
    /\ InitExtra
    /\ adds = <<>>
    /\ map0 = NoMap

SpecDocument == InitDocument /\ [][Next]_vars

\* C24 Unparseable map is not treated as trust: in the document-based
\* clients, when the import map script of the document cannot be parsed,
\* importWithIntegrity never reaches the import of the module.
C24_UnparseableRejects ==
    (client \in {"ts", "js"} /\ document = <<Unparseable>>) => pc # "IMPORT"

\* C25 A module added at runtime is verified afterwards: when addModule(s, u)
\* resolves in a document that already holds an import map, the map read by
\* getImportMap afterwards resolves s to u and holds for u the digest that
\* addModule recorded.
C25_AddedModuleVerified ==
    [][\A a \in Adders :
          (client = "loader" /\ document # <<>>
             /\ adds[a].at = "await" /\ adds'[a].at = "done") =>
                LET m == getImportMap(document') IN
                /\ resolveSpecifier(adds[a].s, m) = adds[a].u
                /\ getIntegrityForUrl(adds[a].u, m)
                      = importMap'.integrity[adds[a].u]]_vars

----------------------------------------------------------------------------
(* Two importWithIntegrity calls side by side *)

Callers == {"c1", "c2"}

\* what the server returns for a URL while the two calls run
ServedResponses ==
    {[kind |-> "throw", body |-> 0]} \cup
    {[kind |-> "ok", body |-> b] : b \in Contents}

\* the two different specifiers of the calls (the calls are alike, so one
\* order of each pair is enough)
SpecifierPairs == {<<"G", "F">>, <<"G", "bare2">>, <<"F", "bare2">>}

\* mutant: the locals of importWithIntegrity hoisted to module scope, so
\* that a call overwrites the digest and the response of the other call
Store_Shared(cs, c, rec) ==
    [k \in DOMAIN cs |->
        IF k = c THEN rec
        ELSE [cs[k] EXCEPT !.expected = rec.expected,
                           !.response = rec.response]]

\* the const locals of importWithIntegrity belong to the call
Store(cs, c, rec) == [cs EXCEPT ![c] = rec]

\* the calls have started, on different specifiers
InitConcurrent ==
    /\ client \in {"core", "ts"}
    /\ lenient = FALSE
    /\ importMap \in LoaderMaps
    /\ InitCall
    /\ disk = <<>>
    /\ todo = {}
    /\ results = NoResults
    /\ InitGen
    /\ adds = <<>>
    /\ document = <<>>
    /\ map0 = importMap
    /\ chunks = <<>>
    /\ fault = "none"
    /\ written = NoMap
    /\ InitHookVars
    /\ InitWorkerVars
    /\ served \in [Keys -> ServedResponses]
    /\ \E pair \in SpecifierPairs :
          /\ calls = [c \in Callers |->
                        [specifier |-> IF c = "c1" THEN pair[1] ELSE pair[2],
                         url |-> NoKey, pc |-> "START",
                         expected |-> NoDigest, response |-> NoResponse,
                         loaded |-> {}]]

ConcResolve ==
    /\ \E c \in Callers :
          /\ calls[c].pc = "START"
          /\ calls' = Store(calls, c,
                [calls[c] EXCEPT
                   !.url = ResolveOf(client, calls[c].specifier, importMap),
                   !.pc = "RESOLVED"])
    /\ UNCHANGED <<client, lenient, importMap, callVars, buildVars, genVars,
                   loaderVars, pc, served, chunks, fault, written,
                   hookVars, workerVars>>

ConcLocate ==
    /\ \E c \in Callers :
          /\ calls[c].pc = "RESOLVED"
          /\ \E o \in LocateOf(client, calls[c].url, importMap) :
                calls' = Store(calls, c,
                    [calls[c] EXCEPT !.pc = o.pc, !.expected = o.expected])
    /\ UNCHANGED <<client, lenient, importMap, callVars, buildVars, genVars,
                   loaderVars, pc, served, chunks, fault, written,
                   hookVars, workerVars>>

\* the verification fetch of a call returns what the server serves
ConcFetch ==
    /\ \E c \in Callers :
          /\ calls[c].pc \in {"DIRECT_CHECK", "ALIAS_CHECK"}
          /\ LET r == served[calls[c].url] IN
             calls' = Store(calls, c,
                 [calls[c] EXCEPT
                    !.response = r,
                    !.pc = IF FetchFailsOf(client, r) THEN "FETCH_FAILED"
                           ELSE "FETCHED"])
    /\ UNCHANGED <<client, lenient, importMap, callVars, buildVars, genVars,
                   loaderVars, pc, served, chunks, fault, written,
                   hookVars, workerVars>>

\* the digest of the fetched text is computed and compared
ConcCompare ==
    /\ \E c \in Callers :
          /\ calls[c].pc = "FETCHED"
          /\ calls' = Store(calls, c,
                [calls[c] EXCEPT
                   !.pc = CompareOf(client, calls[c].response,
                                    calls[c].expected, lenient)])
    /\ UNCHANGED <<client, lenient, importMap, callVars, buildVars, genVars,
                   loaderVars, pc, served, chunks, fault, written,
                   hookVars, workerVars>>

ConcReject ==
    /\ \E c \in Callers :
          /\ calls[c].pc \in RejectStates
          /\ ~ProceedsOf(client, calls[c].pc)
          /\ calls' = Store(calls, c, [calls[c] EXCEPT !.pc = "REJECT"])
    /\ UNCHANGED <<client, lenient, importMap, callVars, buildVars, genVars,
                   loaderVars, pc, served, chunks, fault, written,
                   hookVars, workerVars>>

\* import(resolvedUrl): the module loader fetches the URL itself
ConcImport ==
    /\ \E c \in Callers :
          /\ ProceedsOf(client, calls[c].pc)
          /\ calls' = Store(calls, c,
                [calls[c] EXCEPT
                   !.pc = "IMPORT",
                   !.loaded = @ \cup {[url |-> calls[c].url,
                                       response |-> served[calls[c].url]]}])
    /\ UNCHANGED <<client, lenient, importMap, callVars, buildVars, genVars,
                   loaderVars, pc, served, chunks, fault, written,
                   hookVars, workerVars>>

NextConcurrent ==
    \/ ConcResolve \/ ConcLocate \/ ConcFetch \/ ConcCompare
    \/ ConcReject \/ ConcImport

SpecConcurrent == InitConcurrent /\ [][NextConcurrent]_vars

\* the outcomes importWithIntegrity(s) has when it runs alone on the map m
\* against the server sv
AloneOutcomes(c, s, m, sv) ==
    LET u == ResolveOf(c, s, m)
        End(p) == IF ProceedsOf(c, p) THEN "IMPORT" ELSE "REJECT"
    IN {IF o.pc \in {"DIRECT_CHECK", "ALIAS_CHECK"}
        THEN IF FetchFailsOf(c, sv[u]) THEN End("FETCH_FAILED")
             ELSE End(CompareOf(c, sv[u], o.expected, FALSE))
        ELSE End(o.pc) : o \in LocateOf(c, u, m)}

\* C21 Independent concurrent verifications: in every interleaving of two
\* importWithIntegrity calls on different specifiers over the same map, a
\* call that has ended has the one outcome (IMPORT or REJECT) that it has
\* when it runs alone, and the map is the one the calls started with.
C21_IndependentCalls ==
    client \in {"core", "ts"} /\ DOMAIN calls = Callers =>
        \A c \in Callers :
            LET alone == AloneOutcomes(client, calls[c].specifier, importMap,
                                       served)
            IN /\ Cardinality(alone) = 1
               /\ calls[c].pc \in Terminal => calls[c].pc \in alone
               /\ calls[c].pc = "IMPORT" <=> calls[c].loaded # {}
               /\ importMap = map0

\* the first call has imported after a match while the second one, whose
\* served content does not match, is between its fetch and its digest
C21_Witness ==
    /\ DOMAIN calls = Callers
    /\ calls["c1"].pc = "IMPORT"
    /\ calls["c1"].expected # NoDigest
    /\ calls["c2"].pc = "FETCHED"
    /\ calls["c2"].response.body # calls["c2"].expected.of
    /\ calls["c1"].url # calls["c2"].url

----------------------------------------------------------------------------
(* importWithIntegrity against a server whose content changes *)

\* the calls import "G" and "F" with the core verifier
InitServed ==
    /\ InitConcurrent
    /\ client = "core"
    /\ calls["c1"].specifier = "G"
    /\ calls["c2"].specifier = "F"

\* the content served at a URL is replaced while the calls run
Republish ==
    /\ \E u \in Keys, b \in Contents :
          /\ served[u].kind = "ok"
          /\ served[u].body # b
          /\ served' = [served EXCEPT ![u] = [kind |-> "ok", body |-> b]]
    /\ UNCHANGED <<client, lenient, importMap, callVars, buildVars, genVars,
                   loaderVars, pc, calls, chunks, fault, written,
                   hookVars, workerVars>>

NextServed == NextConcurrent \/ Republish

SpecServed == InitServed /\ [][NextServed]_vars

\* C23 No time-of-check/time-of-use gap: whenever importWithIntegrity has
\* invoked the loader for a URL that has a direct digest in the map, the
\* content the loader obtained has that digest.
C23_NoCheckUseGap ==
    DOMAIN calls = Callers =>
        \A c \in Callers : \A l \in calls[c].loaded :
            Has(importMap.integrity, l.url) =>
                verifyIntegrity(l.response, importMap.integrity[l.url])

----------------------------------------------------------------------------
(* The build hook of the webpack ModuleIntegrityPlugin *)

\* what can go wrong in the hook: a configured directory does not exist, a
\* file of a configured directory cannot be read, the output file cannot be
\* written, module.source() of the first module throws, or an error that is
\* not a ModuleIntegrityError is thrown
Faults ==
    {"none", "missing_directory", "unreadable_file", "unwritable_output",
     "module_source", "other"}

\* generateImportMapWithIntegrity on the first n entries of ms
RECURSIVE generateMap(_, _, _)
generateMap(ms, n, base) ==
    IF n = 0 THEN NoMap
    ELSE generateEntry(generateMap(ms, n - 1, base), ms[n], base)

\* the entries of moduleAssets after processModule has been called for the
\* modules of the chunks: a module whose source() throws is left out
collected(ms, f) ==
    IF f = "module_source" /\ Len(ms) > 0 THEN Tail(ms) ELSE ms

InitWebpack ==
    /\ client = "webpack"
    /\ lenient = FALSE
    /\ importMap = NoMap
    /\ InitCall
    /\ disk = <<>>
    /\ todo = {}
    /\ results = NoResults
    /\ InitLoader
    /\ calls = <<>>
    /\ served = <<>>
    /\ modules = <<>>
    /\ baseUrl \in BaseUrls
    /\ cursor = 0
    /\ firstModules = <<>>
    /\ firstMap = NoMap
    /\ chunks \in Inputs
    /\ fault \in Faults
    /\ written = NoMap
    /\ InitHookVars
    /\ InitWorkerVars

\* lines 254-272: processModule for every module of every chunk; an error
\* in processModule is caught there and reported with console.warn
HookProcess ==
    /\ client = "webpack"
    /\ pc = "IDLE"
    /\ modules' = collected(chunks, fault)
    /\ pc' = IF fault = "other" THEN "H_CAUGHT_OTHER" ELSE "H_DIRS"
    /\ UNCHANGED <<client, lenient, importMap, specifier, url, expected,
                   response, fetches, loaderCalls, path, referrer, buildVars,
                   loaderVars, baseUrl, cursor, firstModules, firstMap,
                   calls, served, chunks, fault, written,
                   hookVars, workerVars>>

\* lines 277-289: readModulesFromDirectories when directories are
\* configured; its invariant and its read error are ModuleIntegrityErrors
HookDirectories ==
    /\ client = "webpack"
    /\ pc = "H_DIRS"
    /\ pc' = IF fault \in {"missing_directory", "unreadable_file"}
             THEN "H_CAUGHT_MIE" ELSE "H_GENERATE"
    /\ UNCHANGED <<client, lenient, importMap, specifier, url, expected,
                   response, fetches, loaderCalls, path, referrer, buildVars,
                   loaderVars, genVars, extraVars>>

\* lines 292-295: generateImportMapWithIntegrity(moduleAssets, prefix)
HookGenerate ==
    /\ client = "webpack"
    /\ pc = "H_GENERATE"
    /\ IF nonEmpty(modules)
       THEN /\ importMap' = generateMap(modules, Len(modules), baseUrl)
            /\ pc' = "H_WRITE"
       ELSE /\ importMap' = importMap
            /\ pc' = "H_CAUGHT_MIE"
    /\ UNCHANGED <<client, lenient, specifier, url, expected,
                   response, fetches, loaderCalls, path, referrer, buildVars,
                   loaderVars, genVars, extraVars>>

\* lines 298-304: writeImportMap; a failed write is a ModuleIntegrityError
HookWrite ==
    /\ client = "webpack"
    /\ pc = "H_WRITE"
    /\ IF fault = "unwritable_output"
       THEN pc' = "H_CAUGHT_MIE" /\ written' = written
       ELSE pc' = "H_DONE" /\ written' = importMap
    /\ UNCHANGED <<client, lenient, importMap, specifier, url, expected,
                   response, fetches, loaderCalls, path, referrer, buildVars,
                   loaderVars, genVars, calls, served, chunks, fault,
                   hookVars, workerVars>>

\* lines 309-322: a ModuleIntegrityError is logged and the hook returns;
\* any other error is thrown again
HookCatch ==
    /\ client = "webpack"
    /\ pc \in {"H_CAUGHT_MIE", "H_CAUGHT_OTHER"}
    /\ pc' = IF pc = "H_CAUGHT_MIE" THEN "H_DONE" ELSE "H_THROW"
    /\ UNCHANGED <<client, lenient, importMap, specifier, url, expected,
                   response, fetches, loaderCalls, path, referrer, buildVars,
                   loaderVars, genVars, extraVars>>

NextWebpack ==
    HookProcess \/ HookDirectories \/ HookGenerate \/ HookWrite \/ HookCatch

SpecWebpack == InitWebpack /\ [][NextWebpack]_vars

\* C22 Generation-time errors are fatal: the build hook of the webpack
\* ModuleIntegrityPlugin returns normally only when nothing went wrong and
\* the map it has written holds a digest for every module of the chunks.
C22_GenerationErrorsFatal ==
    (client = "webpack" /\ pc = "H_DONE") =>
        /\ fault = "none"
        /\ \A i \in DOMAIN chunks :
              Has(written.integrity, generatedUrl(chunks[i].path, baseUrl))
        /\ written # NoMap

----------------------------------------------------------------------------
(* The React hook useModuleWithIntegrity *)

\* the number of effects a component runs in its life
MaxEffects == 3

\* useState({ module: null, loading: true, error: null })
InitialState == [module |-> NoKey, loading |-> TRUE, error |-> NoKey]

\* mutant: the handlers of the promise do not look at the flag
isMounted_Ignored(e) == TRUE

\* if (mounted) in the then and the catch handler of an effect
isMounted(e) == e.mounted

\* the cleanup of the last effect: mounted = false
cleanup(es) ==
    IF es = <<>> THEN es ELSE [es EXCEPT ![Len(es)].mounted = FALSE]

\* a component has rendered with the hook for the first time
InitHook ==
    /\ client = "hook"
    /\ lenient = FALSE
    /\ importMap = NoMap
    /\ InitCall
    /\ disk = <<>>
    /\ todo = {}
    /\ results = NoResults
    /\ InitGen
    /\ InitLoader
    /\ calls = <<>>
    /\ served = <<>>
    /\ chunks = <<>>
    /\ fault = "none"
    /\ written = NoMap
    /\ InitWorkerVars
    /\ component \in [specifier : Keys, alive : {TRUE}]
    /\ hook = InitialState
    /\ effects = <<>>

\* the component renders again with another specifier; the state of the
\* hook is kept, and the effects of the render before have run
HookRender ==
    /\ client = "hook"
    /\ component.alive
    /\ effects # <<>>
    /\ effects[Len(effects)].specifier = component.specifier
    /\ Len(effects) < MaxEffects
    /\ \E s \in Keys \ {component.specifier} :
          component' = [component EXCEPT !.specifier = s]
    /\ UNCHANGED <<client, lenient, importMap, callVars, buildVars, genVars,
                   loaderVars, pc, calls, served, chunks, fault, written,
                   hook, effects, workerVars>>

\* useEffect(..., [specifier]) after a render with a new specifier: the
\* cleanup of the effect before runs, then the effect starts
\* importWithIntegrity(specifier) with a flag of its own
HookEffect ==
    /\ client = "hook"
    /\ component.alive
    /\ IF effects = <<>> THEN TRUE
       ELSE effects[Len(effects)].specifier # component.specifier
    /\ effects' = Append(cleanup(effects),
                         [specifier |-> component.specifier,
                          mounted |-> TRUE, settled |-> FALSE])
    /\ UNCHANGED <<client, lenient, importMap, callVars, buildVars, genVars,
                   loaderVars, pc, calls, served, chunks, fault, written,
                   hook, component, workerVars>>

\* the component unmounts: the cleanup of the last effect runs
HookUnmount ==
    /\ client = "hook"
    /\ component.alive
    /\ component' = [component EXCEPT !.alive = FALSE]
    /\ effects' = cleanup(effects)
    /\ UNCHANGED <<client, lenient, importMap, callVars, buildVars, genVars,
                   loaderVars, pc, calls, served, chunks, fault, written,
                   hook, workerVars>>

\* the promise of an effect settles and its then or catch handler runs: the
\* module or the error of that effect's specifier is set when the flag holds
HookSettle ==
    /\ client = "hook"
    /\ \E i \in DOMAIN effects, fulfilled \in BOOLEAN :
          /\ ~effects[i].settled
          /\ effects' = [effects EXCEPT ![i].settled = TRUE]
          /\ hook' = IF ~isMounted(effects[i]) THEN hook
                     ELSE IF fulfilled
                     THEN [module |-> effects[i].specifier, loading |-> FALSE,
                           error |-> NoKey]
                     ELSE [module |-> NoKey, loading |-> FALSE,
                           error |-> effects[i].specifier]
    /\ UNCHANGED <<client, lenient, importMap, callVars, buildVars, genVars,
                   loaderVars, pc, calls, served, chunks, fault, written,
                   component, workerVars>>

NextHook == HookRender \/ HookEffect \/ HookUnmount \/ HookSettle

SpecHook == InitHook /\ [][NextHook]_vars

\* the state holds at most one of module and error, and neither while loading
StateShape ==
    /\ hook.module = NoKey \/ hook.error = NoKey
    /\ hook.loading => hook.module = NoKey /\ hook.error = NoKey

\* a step that writes the state of the hook writes the result of the last
\* effect started, in a component that has not unmounted
CurrentWrite ==
    hook' # hook =>
        /\ component.alive
        /\ effects # <<>>
        /\ {hook'.module, hook'.error} =
              {NoKey, effects[Len(effects)].specifier}

\* C29 useModuleWithIntegrity commits only the current request: the result
\* of an import started for an earlier specifier, or finishing after the
\* unmount, is never written to the state of the hook; in every state at
\* most one of module and error is set, and none of them while loading.
C29_CommitsCurrentRequest ==
    [](client = "hook" => StateShape) /\ [][client = "hook" => CurrentWrite]_vars

\* the import of the first specifier has settled after the cleanup of its
\* effect, and the state holds the module of the second specifier
C29_Witness ==
    /\ client = "hook"
    /\ Len(effects) = 2
    /\ effects[1].settled
    /\ ~effects[1].mounted
    /\ effects[2].settled
    /\ hook.module = effects[2].specifier
    /\ hook.module # effects[1].specifier

----------------------------------------------------------------------------
(* src/verify-sri/src/service-worker-import-map.js *)

Sections == {"imports", "scopes", "integrity"}

\* the import maps the service worker compares: each section may be absent
\* (has), imports and the mappings of the scope are over one specifier, and
\* integrity is over one URL
SwMaps ==
    {[has |-> h,
      imports |-> IF "imports" \in h THEN i ELSE <<>>,
      scopes |-> IF "scopes" \in h THEN s ELSE <<>>,
      integrity |-> IF "integrity" \in h THEN g ELSE <<>>] :
        h \in SUBSET Sections,
        i \in PartialFns({"G"}, {"G", "F"}),
        s \in PartialFns({"/scope/"}, PartialFns({"G"}, {"G", "F"})),
        g \in PartialFns({"G"}, {[tag |-> "sha384", alg |-> "sha384",
                                  of |-> c] : c \in Contents})}

\* the keys of the trusted section whose value is missing or different in
\* the served section
differing(servedSection, trustedSection) ==
    {k \in DOMAIN trustedSection :
        ~Has(servedSection, k) \/ servedSection[k] # trustedSection[k]}

\* verifyImportMap: the keys for which a discrepancy is recorded, by
\* section (for scopes the scope and the key in it, NoKey for a scope that
\* is missing as a whole), and matches
verifyImportMap(servedMap, trustedMap) ==
    LET both(sec) == sec \in servedMap.has /\ sec \in trustedMap.has
        imports ==
            IF both("imports")
            THEN differing(servedMap.imports, trustedMap.imports) \cup
                 {k \in DOMAIN servedMap.imports : ~Has(trustedMap.imports, k)}
            ELSE {}
        scopes ==
            IF both("scopes")
            THEN UNION {IF ~Has(servedMap.scopes, scopeKey)
                        THEN {<<scopeKey, NoKey>>}
                        ELSE {<<scopeKey, mapKey>> :
                                mapKey \in differing(servedMap.scopes[scopeKey],
                                                     trustedMap.scopes[scopeKey])} :
                          scopeKey \in DOMAIN trustedMap.scopes}
            ELSE {}
        integrity ==
            IF both("integrity")
            THEN differing(servedMap.integrity, trustedMap.integrity)
            ELSE {}
    IN [matches |-> imports = {} /\ scopes = {} /\ integrity = {},
        discrepancies |-> [imports |-> imports, scopes |-> scopes,
                           integrity |-> integrity]]

\* the worker is installed with a trusted map in its cache, and a request
\* for the import map is about to be answered by the network
InitWorker ==
    /\ client = "worker"
    /\ lenient = FALSE
    /\ importMap = NoMap
    /\ InitCall
    /\ disk = <<>>
    /\ todo = {}
    /\ results = NoResults
    /\ InitGen
    /\ InitLoader
    /\ calls = <<>>
    /\ served = <<>>
    /\ chunks = <<>>
    /\ fault = "none"
    /\ written = NoMap
    /\ InitHookVars
    /\ swMaps \in [servedMap : SwMaps, trustedMap : SwMaps,
                   enforceTrustedMap : BOOLEAN]
    /\ verdict = <<>>

\* the fetch handler for a request of the import map: the maps are compared
\* and the trusted map is served instead when they differ and
\* enforceTrustedMap is set
SwFetch ==
    /\ client = "worker"
    /\ pc = "IDLE"
    /\ LET verificationResult ==
               verifyImportMap(swMaps.servedMap, swMaps.trustedMap)
       IN verdict' =
              [result |-> verificationResult,
               response |-> IF ~verificationResult.matches
                               /\ swMaps.enforceTrustedMap
                            THEN swMaps.trustedMap ELSE swMaps.servedMap]
    /\ pc' = "SW_RESPONDED"
    /\ UNCHANGED <<client, lenient, importMap, specifier, url, expected,
                   response, fetches, loaderCalls, path, referrer, buildVars,
                   genVars, loaderVars, calls, served, chunks, fault, written,
                   hookVars, swMaps>>

NextWorker == SwFetch

SpecWorker == InitWorker /\ [][NextWorker]_vars

\* C30 Service-worker map comparison: verifyImportMap(served, trusted)
\* gives matches = true if and only if the served map has exactly the
\* imports, scopes and integrity entries of the trusted map, and a result
\* with matches = false records a discrepancy.
C30_MapComparison ==
    (client = "worker" /\ pc = "SW_RESPONDED") =>
        LET s == swMaps.servedMap
            t == swMaps.trustedMap
            d == verdict.result.discrepancies
        IN /\ verdict.result.matches <=>
                 /\ s.imports = t.imports
                 /\ s.scopes = t.scopes
                 /\ s.integrity = t.integrity
           /\ ~verdict.result.matches =>
                 d.imports # {} \/ d.scopes # {} \/ d.integrity # {}

====
